---------------------------- MODULE Spec2Model ----------------------------
(***************************************************************************)
(* Model of Mk2_fasterControl_Full/inject_sketch_name.py, the PlatformIO   *)
(* pre-build script that registers PROJECT_PATH, CURRENT_TIME, BRANCH_NAME *)
(* and COMMIT_HASH as preprocessor definitions.                            *)
(*                                                                         *)
(* Strings are sequences of one-character strings, so that quoting,        *)
(* stripping, path splitting and timestamp formatting are computed and not *)
(* assumed.  The library calls the script makes (os.path, subprocess,      *)
(* datetime) are modelled by what CPython 3.11 does for them; the state of *)
(* the machine the script runs on (platform, git repository, clock, time   *)
(* zone, build environment) is chosen in Init.                             *)
(***************************************************************************)
EXTENDS Integers, Sequences, FiniteSets, TLC

(***************************************************************************)
(* Bounds of the model.                                                    *)
(***************************************************************************)
\* longest PROJECT_DIR value enumerated
MaxPathLen == 4
\* longest branch name enumerated
MaxNameLen == 2

(***************************************************************************)
(* Generic string helpers.                                                 *)
(***************************************************************************)
\* all sequences over A of length at most n
SeqsUpTo(A, n) == UNION {[1..k -> A] : k \in 0..n}

\* s[i..] in Python slice notation p[i:], with i a 0-based offset
From(s, i) == IF i >= Len(s) THEN <<>> ELSE SubSeq(s, i + 1, Len(s))

\* s[:i]
Upto(s, i) == IF i >= Len(s) THEN s ELSE SubSeq(s, 1, i)

\* str.rstrip(chars)
RECURSIVE rstrip(_, _)
rstrip(s, chars) ==
    IF s # <<>> /\ s[Len(s)] \in chars THEN rstrip(Upto(s, Len(s) - 1), chars) ELSE s

\* str.lstrip(chars)
RECURSIVE lstrip(_, _)
lstrip(s, chars) ==
    IF s # <<>> /\ s[1] \in chars THEN lstrip(From(s, 1), chars) ELSE s

\* the 0-based offset just beyond the last character of s that is in chars
\* (0 when there is none): p.rfind(sep) + 1, and the while loop of ntpath.split
AfterLast(s, chars) ==
    LET hits == {i \in 1..Len(s) : s[i] \in chars}
    IN  IF hits = {} THEN 0 ELSE CHOOSE i \in hits : \A j \in hits : j <= i

\* str.find(c, start): 0-based offset of the first c at or after start, or -1
find(s, c, start) ==
    LET hits == {i \in (start + 1)..Len(s) : s[i] = c}
    IN  IF hits = {} THEN -1 ELSE (CHOOSE i \in hits : \A j \in hits : i <= j) - 1

\* str.replace(old, new) for single characters
replace(s, old, new) == [i \in 1..Len(s) |-> IF s[i] = old THEN new ELSE s[i]]

\* str.upper(), for the characters the model uses
upper(s) ==
    [i \in 1..Len(s) |->
        CASE s[i] = "a" -> "A"
          [] s[i] = "m" -> "M"
          [] s[i] = "u" -> "U"
          [] s[i] = "n" -> "N"
          [] s[i] = "c" -> "C"
          [] OTHER -> s[i]]

(***************************************************************************)
(* os.path, line 19 and line 21.  os.path is posixpath on POSIX and ntpath *)
(* on Windows.                                                             *)
(***************************************************************************)
dummy == <<"d", "u", "m", "m", "y">>

\* posixpath.join(a, b)
posix_join(a, b) ==
    IF b # <<>> /\ b[1] = "/" THEN b
    ELSE IF a = <<>> \/ a[Len(a)] = "/" THEN a \o b
    ELSE a \o <<"/">> \o b

\* posixpath.split(p): <<head, tail>>
posix_split(p) ==
    LET i    == AfterLast(p, {"/"})
        head == Upto(p, i)
        tail == From(p, i)
    IN  <<IF head # <<>> /\ (\E k \in 1..Len(head) : head[k] # "/")
             THEN rstrip(head, {"/"}) ELSE head,
          tail>>

\* posixpath.dirname(p): the head that posixpath.split computes
posix_dirname(p) == posix_split(p)[1]

\* ntpath.splitdrive(p): <<drive, rest>>
nt_splitdrive(p) ==
    IF Len(p) >= 2
    THEN LET normp == replace(p, "/", "\\")
         IN  IF Upto(normp, 2) = <<"\\", "\\">>
             THEN LET start  == IF upper(Upto(normp, 8))
                                     = <<"\\", "\\", "?", "\\", "U", "N", "C", "\\">>
                                THEN 8 ELSE 2
                      index  == find(normp, "\\", start)
                      index2 == find(normp, "\\", index + 1)
                  IN  IF index = -1 THEN <<p, <<>>>>
                      ELSE IF index2 = -1 THEN <<p, <<>>>>
                      ELSE <<Upto(p, index2), From(p, index2)>>
             ELSE IF normp[2] = ":" THEN <<Upto(p, 2), From(p, 2)>>
             ELSE <<<<>>, p>>
    ELSE <<<<>>, p>>

\* ntpath.join(path, b) for a second component b that has no drive and does
\* not start with a separator, which is the case of "dummy"
nt_join(path, b) ==
    LET sd           == nt_splitdrive(path)
        result_drive == sd[1]
        rp0          == sd[2]
        rp1          == IF rp0 # <<>> /\ rp0[Len(rp0)] \notin {"\\", "/"}
                        THEN rp0 \o <<"\\">> ELSE rp0
        result_path  == rp1 \o b
    IN  IF /\ result_path # <<>>
           /\ result_path[1] \notin {"\\", "/"}
           /\ result_drive # <<>>
           /\ result_drive[Len(result_drive)] # ":"
        THEN result_drive \o <<"\\">> \o result_path
        ELSE result_drive \o result_path

\* ntpath.split(p): <<head, tail>>
nt_split(p) ==
    LET sd    == nt_splitdrive(p)
        d     == sd[1]
        q     == sd[2]
        i     == AfterLast(q, {"\\", "/"})
        head  == Upto(q, i)
        tail  == From(q, i)
        head2 == IF rstrip(head, {"\\", "/"}) # <<>>
                 THEN rstrip(head, {"\\", "/"}) ELSE head
    IN  <<d \o head2, tail>>

\* ntpath.dirname(p)
nt_dirname(p) == nt_split(p)[1]

\* os.path.join replaced by plain concatenation
os_path_join_Concat(plat, a, b) == a \o b

os_path_join(plat, a, b) == IF plat = "posix" THEN posix_join(a, b) ELSE nt_join(a, b)

os_path_dirname(plat, p) == IF plat = "posix" THEN posix_dirname(p) ELSE nt_dirname(p)

os_path_split(plat, p) == IF plat = "posix" THEN posix_split(p) ELSE nt_split(p)

\* f"\"{s}\"": the value wrapped in double quotes, nothing escaped
Quoted(s) == <<"\"">> \o s \o <<"\"">>

(***************************************************************************)
(* datetime, line 22.  An instant is [sec, us]: seconds since the epoch    *)
(* (UTC) and microseconds.  A time zone is [before, at, after]: the UTC    *)
(* offset in seconds that the C library's localtime reports before and     *)
(* from instant `at`.  A naive local datetime is [wall, us, fold], wall    *)
(* being the wall-clock reading in seconds since 1970-01-01 00:00:00.      *)
(***************************************************************************)
\* tm_gmtoff of time.localtime(u)
tm_gmtoff(zone, u) == IF u < zone.at THEN zone.before ELSE zone.after

\* the wall-clock reading of time.localtime(u), as seconds
local(zone, u) == u + tm_gmtoff(zone, u)

\* max_fold_seconds of datetime.py
max_fold_seconds == 24 * 3600

\* datetime.now(): the clock read once, converted by localtime, fold detected
\* by probing max_fold_seconds into the past
datetime_now(plat, zone, clock) ==
    LET t      == clock.sec
        result == local(zone, t)
        probe1 == local(zone, t - max_fold_seconds)
        trans  == result - probe1 - max_fold_seconds
        fold   == IF plat = "win32" /\ t < max_fold_seconds THEN 0
                  ELSE IF trans < 0 /\ local(zone, t + trans) = result THEN 1
                  ELSE 0
    IN  [wall |-> result, us |-> clock.us, fold |-> fold]

\* replace(microsecond=0) left out
replace_microsecond_Keep(dt, us) == dt

\* datetime.replace(microsecond=0)
replace_microsecond(dt, us) == [dt EXCEPT !.us = us]

\* datetime._mktime(): the instant a naive local datetime stands for
mktime(zone, dt) ==
    LET t  == dt.wall
        a  == local(zone, t) - t
        u1 == t - a
        t1 == local(zone, u1)
        u2p == u1 + (IF dt.fold = 1 THEN max_fold_seconds ELSE -max_fold_seconds)
        bp == local(zone, u2p) - u2p
        b  == IF t1 = t THEN bp ELSE t1 - u1
        u2 == t - b
        t2 == local(zone, u2)
    IN  IF t1 = t /\ a = bp THEN u1
        ELSE IF t2 = t THEN u2
        ELSE IF t1 = t THEN u1
        ELSE IF dt.fold = 1 THEN (IF u1 < u2 THEN u1 ELSE u2)
        ELSE (IF u1 < u2 THEN u2 ELSE u1)

\* datetime.astimezone() of a naive datetime: the local zone's offset at the
\* instant the datetime stands for is attached, the wall-clock reading kept
astimezone(zone, dt) ==
    LET myoffset == tm_gmtoff(zone, mktime(zone, dt))
        utc      == dt.wall - myoffset
    IN  [wall |-> utc + myoffset, us |-> dt.us, utcoffset |-> myoffset]

DigitChars == <<"0", "1", "2", "3", "4", "5", "6", "7", "8", "9">>

RECURSIVE Pow10(_)
Pow10(k) == IF k = 0 THEN 1 ELSE 10 * Pow10(k - 1)

\* "%0<w>d" % n
Pad(n, w) == [i \in 1..w |-> DigitChars[((n \div Pow10(w - i)) % 10) + 1]]

\* proleptic Gregorian <<year, month, day>> of a day count since 1970-01-01
CivilFromDays(days) ==
    LET z   == days + 719468
        era == z \div 146097
        doe == z - era * 146097
        yoe == (doe - doe \div 1460 + doe \div 36524 - doe \div 146096) \div 365
        doy == doe - (365 * yoe + yoe \div 4 - yoe \div 100)
        mp  == (5 * doy + 2) \div 153
        d   == doy - (153 * mp + 2) \div 5 + 1
        m   == IF mp < 10 THEN mp + 3 ELSE mp - 9
        y   == yoe + era * 400 + (IF m <= 2 THEN 1 ELSE 0)
    IN  <<y, m, d>>

\* _format_offset(off) of datetime.py
format_offset(off) ==
    LET sign == IF off < 0 THEN "-" ELSE "+"
        o    == IF off < 0 THEN -off ELSE off
        hh   == o \div 3600
        mm   == (o % 3600) \div 60
        ss   == o % 60
    IN  <<sign>> \o Pad(hh, 2) \o <<":">> \o Pad(mm, 2)
        \o (IF ss # 0 THEN <<":">> \o Pad(ss, 2) ELSE <<>>)

\* datetime.isoformat(sep): YYYY-MM-DD<sep>HH:MM:SS[.ffffff]+HH:MM
isoformat(dt, sep) ==
    LET ymd == CivilFromDays(dt.wall \div 86400)
        r   == dt.wall % 86400
    IN  Pad(ymd[1], 4) \o <<"-">> \o Pad(ymd[2], 2) \o <<"-">> \o Pad(ymd[3], 2)
        \o <<sep>>
        \o Pad(r \div 3600, 2) \o <<":">> \o Pad((r % 3600) \div 60, 2)
        \o <<":">> \o Pad(r % 60, 2)
        \o (IF dt.us # 0 THEN <<".">> \o Pad(dt.us, 6) ELSE <<>>)
        \o format_offset(dt.utcoffset)

\* line 22: datetime.now().replace(microsecond=0).astimezone().isoformat(' ')
tz_dt_of(plat, zone, clock) ==
    isoformat(astimezone(zone, replace_microsecond(datetime_now(plat, zone, clock), 0)), " ")

(***************************************************************************)
(* subprocess and git, lines 6-16.  The machine is [shell, git, repo,      *)
(* branch, head, show_current]: whether the shell that shell=True asks for *)
(* can be started, whether git is on the PATH, whether the working         *)
(* directory is inside a repository, the checked-out branch (<<>> for a    *)
(* detached HEAD), the short hash of HEAD (<<>> for a branch without       *)
(* commits), and whether git is recent enough (2.22) to know the option    *)
(* --show-current of git branch.                                           *)
(* Output is a sequence of bytes, InvalidByte standing for a byte that is  *)
(* no UTF-8.                                                               *)
(***************************************************************************)
InvalidByte == "\\xff"

NA == <<"N", "/", "A">>

Whitespace == {" ", "\t", "\n", "\r"}

RevParseArgs == <<"git", "rev-parse", "--short", "HEAD">>

BranchArgs == <<"git", "branch", "--show-current">>

\* What Popen(args, shell=True) makes the shell run when args is a list: on
\* POSIX ["/bin/sh", "-c", args[0]] + args[1:], so the command is args[0]
\* alone and the other items become the shell's own $0, $1, ...; on Windows
\* the list is joined into one command line for cmd.exe
shell_command(plat, args) == IF plat = "posix" THEN <<args[1]>> ELSE args

\* the exit status and standard output of the shell running a command
run_shell(plat, world, cmd) ==
    IF ~world.git
    THEN [returncode |-> IF plat = "posix" THEN 127 ELSE 1, stdout |-> <<>>]
    ELSE IF cmd = <<"git">>
    THEN [returncode |-> 1, stdout |-> <<"u", "s", "a", "g", "e", "\n">>]
    ELSE IF ~world.repo
    THEN [returncode |-> 128, stdout |-> <<>>]
    ELSE IF cmd = RevParseArgs
    THEN IF world.head = <<>>
         THEN [returncode |-> 128, stdout |-> <<"H", "E", "A", "D", "\n">>]
         ELSE [returncode |-> 0, stdout |-> world.head \o <<"\n">>]
    ELSE IF ~world.show_current
    THEN [returncode |-> 129, stdout |-> <<>>]
    ELSE [returncode |-> 0,
          stdout |-> IF world.branch = <<>> THEN <<>> ELSE world.branch \o <<"\n">>]

\* the exit status check_output sees for args
exit_status(plat, world, args) ==
    run_shell(plat, world, shell_command(plat, args)).returncode

\* subprocess.check_output(args, shell=True): [exc, value]
check_output(plat, world, args) ==
    IF ~world.shell THEN [exc |-> "OSError", value |-> <<>>]
    ELSE IF exit_status(plat, world, args) # 0
    THEN [exc |-> "CalledProcessError", value |-> <<>>]
    ELSE [exc |-> "none",
          value |-> run_shell(plat, world, shell_command(plat, args)).stdout]

\* bytes.decode('utf-8'): [exc, value]
decode(bytes) ==
    IF \E k \in 1..Len(bytes) : bytes[k] = InvalidByte
    THEN [exc |-> "UnicodeDecodeError", value |-> <<>>]
    ELSE [exc |-> "none", value |-> bytes]

\* str.strip()
strip(s) == lstrip(rstrip(s, Whitespace), Whitespace)

\* git_query with a handler that returns the empty string
git_query_EmptyOnError(plat, world, args) ==
    LET r == check_output(plat, world, args)
    IN  IF r.exc = "CalledProcessError" THEN [exc |-> "none", value |-> <<>>]
        ELSE IF r.exc # "none" THEN r
        ELSE LET d == decode(r.value)
             IN  IF d.exc # "none" THEN d
                 ELSE [exc |-> "none", value |-> strip(d.value)]

\* the body of both functions: try: return check_output(...).decode().strip()
\* except CalledProcessError: return "N/A"
git_query(plat, world, args) ==
    LET r == check_output(plat, world, args)
    IN  IF r.exc = "CalledProcessError" THEN [exc |-> "none", value |-> NA]
        ELSE IF r.exc # "none" THEN r
        ELSE LET d == decode(r.value)
             IN  IF d.exc # "none" THEN d
                 ELSE [exc |-> "none", value |-> strip(d.value)]

get_git_revision_short_hash(plat, world) == git_query(plat, world, RevParseArgs)

get_git_current_branch(plat, world) == git_query(plat, world, BranchArgs)

(***************************************************************************)
(* The script, lines 18-29.                                                *)
(***************************************************************************)
VARIABLES
    pc,           \* the line the script is at; "done" or "aborted" at its end
    exc,          \* the exception that ended the run, "none" otherwise
    platform,     \* "posix" or "win32"
    world,        \* shell, git and repository of the machine
    zone,         \* the local time zone
    clock,        \* the system clock
    env,          \* the build environment: PROJECT_DIR and CPPDEFINES
    cppdefines0,  \* CPPDEFINES as the build tool handed it over
    proj_path, macro_value, tz_dt, branch_value, hash_value,
    running,      \* subprocesses started and not yet waited for
    spawned,      \* subprocesses started so far
    exit_codes,   \* exit statuses of the subprocesses waited for, in order
    clock_reads,  \* reads of the system clock so far
    appends       \* calls of env.Append so far

vars == <<pc, exc, platform, world, zone, clock, env, cppdefines0, proj_path,
          macro_value, tz_dt, branch_value, hash_value, running, spawned,
          exit_codes, clock_reads, appends>>

machine == <<platform, world, zone, clock, cppdefines0>>

Platforms == {"posix", "win32"}

PathChars == {"/", "\\", ":", "a", "\""}

NameChars == {"m", "\"", InvalidByte}

\* the directories, branch and commit of the documented scenario
ProjDir == <<"/", "h", "o", "m", "e", "/", "u", "/", "p", "r", "o", "j">>

ProjDirWin == <<"C", ":", "\\", "u", "\\", "p", "r", "o", "j", "\\">>

ProjDirUnc == <<"\\", "\\", "a", "\\", "a", "\\", "p", "r", "o", "j">>

Main == <<"m", "a", "i", "n">>

Abc1234 == <<"a", "b", "c", "1", "2", "3", "4">>

Str(v) == [kind |-> "str", value |-> v]

\* env["PROJECT_DIR"]: absent, present and no string, or a path
ProjectDirs ==
    {[kind |-> "missing", value |-> <<>>], [kind |-> "none", value |-> <<>>]}
    \cup {Str(v) : v \in SeqsUpTo(PathChars, MaxPathLen)
                       \cup {ProjDir, ProjDir \o <<"/">>, ProjDir \o <<"/">> \o dummy,
                             ProjDirWin, ProjDirUnc}}

World(s, g, r, b, h, o) ==
    [shell |-> s, git |-> g, repo |-> r, branch |-> b, head |-> h, show_current |-> o]

NoShell == World(FALSE, FALSE, FALSE, <<>>, <<>>, TRUE)

NoGit == World(TRUE, FALSE, FALSE, <<>>, <<>>, TRUE)

NoRepo == World(TRUE, TRUE, FALSE, <<>>, <<>>, TRUE)

OnMain == World(TRUE, TRUE, TRUE, Main, Abc1234, TRUE)

\* a repository has a branch, commits, or both
Worlds ==
    {NoShell, NoGit, NoRepo}
    \cup ({World(TRUE, TRUE, TRUE, b, h, o) :
             b \in SeqsUpTo(NameChars, MaxNameLen) \cup {Main}, h \in {<<>>, Abc1234},
             o \in BOOLEAN}
          \ {World(TRUE, TRUE, TRUE, <<>>, <<>>, o) : o \in BOOLEAN})

\* 2026-10-25 01:00:00 UTC
Transition == 20751 * 86400 + 3600

Utc == [before |-> 0, at |-> Transition, after |-> 0]

\* UTC, a zone setting its clocks back one hour, one setting them forward, and
\* one west of Greenwich with a half-hour offset setting them back
Zones ==
    {Utc,
     [before |-> 7200, at |-> Transition, after |-> 3600],
     [before |-> 3600, at |-> Transition, after |-> 7200],
     [before |-> -9000, at |-> Transition, after |-> -12600]}

Clocks ==
    {[sec |-> Transition + d, us |-> u] :
        d \in {-3601, -3600, -1, 0, 1, 3599, 3600, 3601}, u \in {0, 999999}}

Noon == [sec |-> Transition + 39600, us |-> 250000]

\* definitions the build tool may have registered before the script runs
MaxDefines == 1

Defines ==
    SeqsUpTo({<<"F_CPU", <<"1">>>>, <<"PROJECT_PATH", Quoted(<<"x">>)>>}, MaxDefines)

Start(p, w, z, c, d, defs) ==
    /\ platform = p
    /\ world = w
    /\ zone = z
    /\ clock = c
    /\ env = [PROJECT_DIR |-> d, CPPDEFINES |-> defs]
    /\ cppdefines0 = defs
    /\ pc = "line19"
    /\ exc = "none"
    /\ proj_path = <<>>
    /\ macro_value = <<>>
    /\ tz_dt = <<>>
    /\ branch_value = <<>>
    /\ hash_value = <<>>
    /\ running = 0
    /\ spawned = 0
    /\ exit_codes = <<>>
    /\ clock_reads = 0
    /\ appends = 0

\* The machine is enumerated one aspect at a time: every directory, every
\* repository state, every clock reading and every prior CPPDEFINES, each on
\* both platforms, the other aspects held at ordinary values.
Init ==
    \E p \in Platforms :
        \/ \E d \in ProjectDirs, w \in {NoRepo, OnMain} :
               Start(p, w, Utc, Noon, d, <<>>)
        \/ \E w \in Worlds, d \in {Str(ProjDir), Str(<<"\"">>)} :
               Start(p, w, Utc, Noon, d, <<>>)
        \/ \E z \in Zones, c \in Clocks :
               Start(p, OnMain, z, c, Str(ProjDir), <<>>)
        \/ \E defs \in Defines, w \in {NoShell, NoRepo, OnMain},
              d \in {[kind |-> "missing", value |-> <<>>], Str(ProjDir)} :
               Start(p, w, Utc, Noon, d, defs)

\* an exception no handler catches: the script ends where it is
Raise(e) ==
    /\ pc' = "aborted"
    /\ exc' = e

\* line 19 reading the directory with a default instead of env["PROJECT_DIR"]
Line19_Default ==
    /\ pc = "line19"
    /\ proj_path' = os_path_join(platform,
                        IF env.PROJECT_DIR.kind = "str" THEN env.PROJECT_DIR.value
                        ELSE <<>>, dummy)
    /\ pc' = "line21"
    /\ UNCHANGED <<machine, env, exc, macro_value, tz_dt, branch_value, hash_value,
                   running, spawned, exit_codes, clock_reads, appends>>

\* line 19: proj_path = os.path.join(env["PROJECT_DIR"], "dummy")
Line19 ==
    /\ pc = "line19"
    /\ IF env.PROJECT_DIR.kind = "missing"
       THEN Raise("KeyError") /\ UNCHANGED proj_path
       ELSE IF env.PROJECT_DIR.kind # "str"
       THEN Raise("TypeError") /\ UNCHANGED proj_path
       ELSE /\ proj_path' = os_path_join(platform, env.PROJECT_DIR.value, dummy)
            /\ pc' = "line21"
            /\ UNCHANGED exc
    /\ UNCHANGED <<machine, env, macro_value, tz_dt, branch_value, hash_value,
                   running, spawned, exit_codes, clock_reads, appends>>

\* line 21: macro_value = f"\"{os.path.split(os.path.dirname(proj_path))[1]}\""
Line21 ==
    /\ pc = "line21"
    /\ macro_value' =
          Quoted(os_path_split(platform, os_path_dirname(platform, proj_path))[2])
    /\ pc' = "line22"
    /\ UNCHANGED <<machine, env, exc, proj_path, tz_dt, branch_value, hash_value,
                   running, spawned, exit_codes, clock_reads, appends>>

\* line 22: tz_dt = datetime.now().replace(microsecond=0).astimezone().isoformat(' ')
Line22 ==
    /\ pc = "line22"
    /\ tz_dt' = tz_dt_of(platform, zone, clock)
    /\ clock_reads' = clock_reads + 1
    /\ pc' = "line27"
    /\ UNCHANGED <<machine, env, exc, proj_path, macro_value, branch_value,
                   hash_value, running, spawned, exit_codes, appends>>

\* line 27 starting the shell and going on without waiting for it
SpawnBranch_NoWait ==
    /\ pc = "line27"
    /\ running' = running + 1
    /\ spawned' = spawned + 1
    /\ pc' = "line28"
    /\ UNCHANGED <<machine, env, exc, proj_path, macro_value, tz_dt, branch_value,
                   hash_value, exit_codes, clock_reads, appends>>

\* line 27, get_git_current_branch(): check_output starts the shell
SpawnBranch ==
    /\ pc = "line27"
    /\ IF get_git_current_branch(platform, world).exc = "OSError"
       THEN Raise("OSError") /\ UNCHANGED <<running, spawned>>
       ELSE /\ running' = running + 1
            /\ spawned' = spawned + 1
            /\ pc' = "wait27"
            /\ UNCHANGED exc
    /\ UNCHANGED <<machine, env, proj_path, macro_value, tz_dt, branch_value,
                   hash_value, exit_codes, clock_reads, appends>>

\* line 27: check_output waits for the shell; the function returns or raises
FinishBranch ==
    /\ pc = "wait27"
    /\ running' = running - 1
    /\ exit_codes' = exit_codes \o <<exit_status(platform, world, BranchArgs)>>
    /\ LET r == get_git_current_branch(platform, world)
       IN  IF r.exc # "none"
           THEN Raise(r.exc) /\ UNCHANGED branch_value
           ELSE /\ branch_value' = Quoted(r.value)
                /\ pc' = "line28"
                /\ UNCHANGED exc
    /\ UNCHANGED <<machine, env, proj_path, macro_value, tz_dt, hash_value,
                   spawned, clock_reads, appends>>

\* line 28, get_git_revision_short_hash(): check_output starts the shell
SpawnHash ==
    /\ pc = "line28"
    /\ IF get_git_revision_short_hash(platform, world).exc = "OSError"
       THEN Raise("OSError") /\ UNCHANGED <<running, spawned>>
       ELSE /\ running' = running + 1
            /\ spawned' = spawned + 1
            /\ pc' = "wait28"
            /\ UNCHANGED exc
    /\ UNCHANGED <<machine, env, proj_path, macro_value, tz_dt, branch_value,
                   hash_value, exit_codes, clock_reads, appends>>

\* line 28: check_output waits for the shell; the function returns or raises
FinishHash ==
    /\ pc = "wait28"
    /\ running' = running - 1
    /\ exit_codes' = exit_codes \o <<exit_status(platform, world, RevParseArgs)>>
    /\ LET r == get_git_revision_short_hash(platform, world)
       IN  IF r.exc # "none"
           THEN Raise(r.exc) /\ UNCHANGED hash_value
           ELSE /\ hash_value' = Quoted(r.value)
                /\ pc' = "line24"
                /\ UNCHANGED exc
    /\ UNCHANGED <<machine, env, proj_path, macro_value, tz_dt, branch_value,
                   spawned, clock_reads, appends>>

\* lines 24-29 replacing CPPDEFINES instead of appending to it
env_Append_Replace ==
    /\ pc = "line24"
    /\ env' = [env EXCEPT !.CPPDEFINES =
                  << <<"PROJECT_PATH", macro_value>>,
                     <<"CURRENT_TIME", Quoted(tz_dt)>>,
                     <<"BRANCH_NAME", branch_value>>,
                     <<"COMMIT_HASH", hash_value>> >>]
    /\ appends' = appends + 1
    /\ pc' = "done"
    /\ UNCHANGED <<machine, exc, proj_path, macro_value, tz_dt, branch_value,
                   hash_value, running, spawned, exit_codes, clock_reads>>

\* lines 24-29: env.Append(CPPDEFINES=[...]), called once its argument is built
env_Append ==
    /\ pc = "line24"
    /\ env' = [env EXCEPT !.CPPDEFINES =
                  @ \o << <<"PROJECT_PATH", macro_value>>,
                          <<"CURRENT_TIME", Quoted(tz_dt)>>,
                          <<"BRANCH_NAME", branch_value>>,
                          <<"COMMIT_HASH", hash_value>> >>]
    /\ appends' = appends + 1
    /\ pc' = "done"
    /\ UNCHANGED <<machine, exc, proj_path, macro_value, tz_dt, branch_value,
                   hash_value, running, spawned, exit_codes, clock_reads>>

Next ==
    \/ Line19
    \/ Line21
    \/ Line22
    \/ SpawnBranch
    \/ FinishBranch
    \/ SpawnHash
    \/ FinishHash
    \/ env_Append

Spec == Init /\ [][Next]_vars

(***************************************************************************)
(* What the run registered.                                                *)
(***************************************************************************)
\* the definitions appended to CPPDEFINES since the script started
Injected == From(env.CPPDEFINES, Len(cppdefines0))

InjectedNames == [i \in 1..Len(Injected) |-> Injected[i][1]]

FourNames == <<"PROJECT_PATH", "CURRENT_TIME", "BRANCH_NAME", "COMMIT_HASH">>

\* the value registered under a name
ValueOf(name) == Injected[CHOOSE i \in 1..Len(Injected) : Injected[i][1] = name][2]

Ended == pc \in {"done", "aborted"}

(***************************************************************************)
(* C1: a git query whose subprocess exits with a non-zero status returns   *)
(* exactly N/A: the run is not aborted by it, the field is "N/A" in quotes *)
(* and that is what gets registered.                                       *)
(***************************************************************************)
C1_NonZeroExitGivesNA ==
    /\ (Len(exit_codes) >= 1 /\ exit_codes[1] # 0) =>
          /\ pc # "aborted"
          /\ branch_value = Quoted(NA)
          /\ pc = "done" => ValueOf("BRANCH_NAME") = <<"\"", "N", "/", "A", "\"">>
    /\ (Len(exit_codes) >= 2 /\ exit_codes[2] # 0) =>
          /\ pc # "aborted"
          /\ hash_value = Quoted(NA)
          /\ pc = "done" => ValueOf("COMMIT_HASH") = <<"\"", "N", "/", "A", "\"">>

\* on Windows, outside any repository: both git commands ran and exited 128
C1_Witness ==
    /\ pc = "done"
    /\ platform = "win32"
    /\ exit_codes = <<128, 128>>
    /\ ValueOf("BRANCH_NAME") = Quoted(NA)
    /\ ValueOf("COMMIT_HASH") = Quoted(NA)

(***************************************************************************)
(* C2: no failure of a git query propagates out of get_git_current_branch  *)
(* or get_git_revision_short_hash: a shell that cannot be started and      *)
(* output that cannot be decoded are recovered to N/A like a non-zero exit.*)
(***************************************************************************)
C2_EveryQueryFailureRecovered ==
    /\ exc \notin {"OSError", "UnicodeDecodeError"}
    /\ (Ended /\ env.PROJECT_DIR.kind = "str" /\ ~world.shell) =>
          /\ pc = "done"
          /\ ValueOf("BRANCH_NAME") = Quoted(NA)
          /\ ValueOf("COMMIT_HASH") = Quoted(NA)

(***************************************************************************)
(* C3: inside a repository with a branch checked out and a commit at HEAD, *)
(* a finished run registers BRANCH_NAME as the branch name and COMMIT_HASH *)
(* as the short hash, each in double quotes (on main at abc1234: "main"    *)
(* and "abc1234"), not the N/A sentinel.                                   *)
(***************************************************************************)
C3_InRepositoryBranchAndHash ==
    (pc = "done" /\ world.shell /\ world.git /\ world.repo
        /\ world.show_current /\ world.branch # <<>> /\ world.head # <<>>) =>
          /\ ValueOf("BRANCH_NAME") = Quoted(world.branch)
          /\ ValueOf("COMMIT_HASH") = Quoted(world.head)

(***************************************************************************)
(* Path segments, stated without os.path: the separators of the platform,  *)
(* the path after its drive or share prefix, its last segment once the     *)
(* trailing separators are gone, and what is left before that segment.     *)
(***************************************************************************)
Seps(plat) == IF plat = "posix" THEN {"/"} ELSE {"\\", "/"}

AfterDrive(plat, P) == IF plat = "posix" THEN P ELSE nt_splitdrive(P)[2]

LastSegment(plat, P) ==
    LET q == rstrip(AfterDrive(plat, P), Seps(plat))
    IN  From(q, AfterLast(q, Seps(plat)))

ParentOf(plat, P) ==
    LET q == rstrip(AfterDrive(plat, P), Seps(plat))
    IN  Upto(q, AfterLast(q, Seps(plat)))

\* line 21 has been executed
PastLine21 ==
    \/ pc \notin {"line19", "line21", "aborted"}
    \/ pc = "aborted" /\ clock_reads > 0

(***************************************************************************)
(* C4, as claimed: for every project directory P, the registered           *)
(* PROJECT_PATH is the double-quoted final segment of the parent of P,     *)
(* whatever separators trail P.                                            *)
(***************************************************************************)
C4_Original_LastSegmentOfParent ==
    (pc = "done" /\ env.PROJECT_DIR.kind = "str") =>
        ValueOf("PROJECT_PATH")
            = Quoted(LastSegment(platform, ParentOf(platform, env.PROJECT_DIR.value)))

(***************************************************************************)
(* C4, amended: for every project directory P, macro_value and the         *)
(* registered PROJECT_PATH are the double-quoted final segment of P itself *)
(* (after its drive or share prefix on Windows), whatever separators trail *)
(* P: it is P joined with dummy whose parent's final segment is taken.     *)
(***************************************************************************)
C4_LastSegmentOfProjectDir ==
    /\ (PastLine21 /\ env.PROJECT_DIR.kind = "str") =>
          macro_value = Quoted(LastSegment(platform, env.PROJECT_DIR.value))
    /\ (pc = "done" /\ env.PROJECT_DIR.kind = "str") =>
          ValueOf("PROJECT_PATH") = Quoted(LastSegment(platform, env.PROJECT_DIR.value))

\* /home/u/proj/ with its trailing separator registers "proj"
C4_Witness ==
    /\ pc = "done"
    /\ env.PROJECT_DIR.value = ProjDir \o <<"/">>
    /\ ValueOf("PROJECT_PATH") = <<"\"", "p", "r", "o", "j", "\"">>

(***************************************************************************)
(* C5: whenever the environment provides a project directory, the run ends *)
(* with all four definitions registered whatever the two git queries did;  *)
(* a failing query turns its own field into N/A and leaves PROJECT_PATH,   *)
(* CURRENT_TIME and the other git field what the inputs alone make them.   *)
(***************************************************************************)
C5_FourDefinitionsWhateverGitDoes ==
    (Ended /\ env.PROJECT_DIR.kind = "str") =>
        /\ pc = "done"
        /\ InjectedNames = FourNames
        /\ ValueOf("PROJECT_PATH") = macro_value
        /\ ValueOf("CURRENT_TIME") = Quoted(tz_dt_of(platform, zone, clock))
        /\ ValueOf("BRANCH_NAME") \in {Quoted(NA), Quoted(world.branch)}
        /\ ValueOf("COMMIT_HASH") \in {Quoted(NA), Quoted(world.head)}

(***************************************************************************)
(* C6: each registered value is a well-formed quoted string literal: it    *)
(* opens with a double quote, closes with one, and holds no unescaped      *)
(* double quote and no line break in between.                              *)
(***************************************************************************)
\* the backslashes directly before position i of s
RECURSIVE BackslashesBefore(_, _)
BackslashesBefore(s, i) ==
    IF i > 1 /\ s[i - 1] = "\\" THEN 1 + BackslashesBefore(s, i - 1) ELSE 0

UnescapedQuoteAt(s, i) == s[i] = "\"" /\ BackslashesBefore(s, i) % 2 = 0

WellFormedLiteral(s) ==
    /\ Len(s) >= 2
    /\ s[1] = "\""
    /\ UnescapedQuoteAt(s, Len(s))
    /\ \A i \in 2..(Len(s) - 1) : ~UnescapedQuoteAt(s, i) /\ s[i] \notin {"\n", "\r"}

C6_ValuesAreWellFormedLiterals ==
    \A i \in 1..Len(Injected) : WellFormedLiteral(Injected[i][2])

(***************************************************************************)
(* Reading a timestamp string back: YYYY-MM-DD HH:MM:SS[.ffffff][+HH:MM]   *)
(* to the instant it names.                                                *)
(***************************************************************************)
DigitValue(c) == CHOOSE k \in 0..9 : DigitChars[k + 1] = c

RECURSIVE Number(_)
Number(s) ==
    IF s = <<>> THEN 0 ELSE 10 * Number(Upto(s, Len(s) - 1)) + DigitValue(s[Len(s)])

DaysFromCivil(y0, m, d) ==
    LET y   == IF m <= 2 THEN y0 - 1 ELSE y0
        era == y \div 400
        yoe == y - era * 400
        doy == (153 * (IF m > 2 THEN m - 3 ELSE m + 9) + 2) \div 5 + d - 1
        doe == yoe * 365 + yoe \div 4 - yoe \div 100 + doy
    IN  era * 146097 + doe - 719468

ParseIso(s) ==
    LET days    == DaysFromCivil(Number(SubSeq(s, 1, 4)), Number(SubSeq(s, 6, 7)),
                                 Number(SubSeq(s, 9, 10)))
        wall    == days * 86400 + Number(SubSeq(s, 12, 13)) * 3600
                     + Number(SubSeq(s, 15, 16)) * 60 + Number(SubSeq(s, 18, 19))
        rest    == From(s, 19)
        hasFrac == rest # <<>> /\ rest[1] = "."
        off     == IF hasFrac THEN From(rest, 7) ELSE rest
        hasOff  == off # <<>> /\ off[1] \in {"+", "-"}
        offSecs == IF ~hasOff THEN 0
                   ELSE (IF off[1] = "-" THEN -1 ELSE 1)
                        * (Number(SubSeq(off, 2, 3)) * 3600 + Number(SubSeq(off, 5, 6)) * 60
                           + (IF Len(off) > 6 THEN Number(SubSeq(off, 8, 9)) ELSE 0))
    IN  [sec |-> wall - offSecs, hasFraction |-> hasFrac, hasOffset |-> hasOff]

(***************************************************************************)
(* C7: the clock is read at most once, exactly once by the time tz_dt is   *)
(* set; tz_dt then carries a UTC offset, has no sub-second part, and reads *)
(* back to the instant the clock showed, truncated to the second.          *)
(***************************************************************************)
C7_TimestampRoundTrip ==
    /\ clock_reads <= 1
    /\ (clock_reads = 1) <=> (tz_dt # <<>>)
    /\ pc = "done" => clock_reads = 1
    /\ tz_dt # <<>> =>
          /\ ParseIso(tz_dt).hasOffset
          /\ ~ParseIso(tz_dt).hasFraction
          /\ ParseIso(tz_dt).sec = clock.sec

\* a reading inside the hour the clocks repeat after being set back, with a
\* sub-second part to drop
C7_Witness ==
    /\ pc = "done"
    /\ zone.before = 7200
    /\ zone.after = 3600
    /\ clock = [sec |-> Transition + 1, us |-> 999999]
    /\ ValueOf("CURRENT_TIME") = Quoted(tz_dt)
    /\ ParseIso(tz_dt).sec = Transition + 1

(***************************************************************************)
(* C8: when the environment has no usable PROJECT_DIR the run is aborted   *)
(* at line 19 by the uncaught KeyError or TypeError: no subprocess was     *)
(* started and CPPDEFINES is what it was.                                  *)
(***************************************************************************)
C8_NoProjectDirAbortsBeforeAnything ==
    env.PROJECT_DIR.kind # "str" =>
        /\ pc \in {"line19", "aborted"}
        /\ pc = "aborted" =>
              exc = (IF env.PROJECT_DIR.kind = "missing" THEN "KeyError" ELSE "TypeError")
        /\ spawned = 0
        /\ running = 0
        /\ clock_reads = 0
        /\ appends = 0
        /\ env.CPPDEFINES = cppdefines0

C8_Witness ==
    /\ pc = "aborted"
    /\ exc = "KeyError"
    /\ env.PROJECT_DIR.kind = "missing"
    /\ cppdefines0 # <<>>
    /\ env.CPPDEFINES = cppdefines0

(***************************************************************************)
(* C9: at most two subprocesses are started and never two at a time: the   *)
(* second is started only once the first has been waited for, and          *)
(* env.Append is called only after both have ended and tz_dt is computed.  *)
(***************************************************************************)
C9_SubprocessesInSequence ==
    /\ spawned <= 2
    /\ running <= 1
    /\ spawned = 2 => Len(exit_codes) >= 1
    /\ Len(exit_codes) + running = spawned
    /\ appends > 0 =>
          /\ spawned = 2
          /\ running = 0
          /\ Len(exit_codes) = 2
          /\ clock_reads = 1
          /\ tz_dt # <<>>

\* the second subprocess is running, the first has exited
C9_Witness ==
    /\ pc = "wait28"
    /\ spawned = 2
    /\ running = 1
    /\ Len(exit_codes) = 1

(***************************************************************************)
(* C10: env.Append is called at most once, once in a run that finishes;    *)
(* at every point CPPDEFINES is what it was before the run followed by     *)
(* either nothing or exactly PROJECT_PATH, CURRENT_TIME, BRANCH_NAME and   *)
(* COMMIT_HASH in this order.                                              *)
(***************************************************************************)
C10_OneAppendOfAllFour ==
    /\ appends <= 1
    /\ pc = "done" => appends = 1
    /\ Len(env.CPPDEFINES) >= Len(cppdefines0)
    /\ Upto(env.CPPDEFINES, Len(cppdefines0)) = cppdefines0
    /\ InjectedNames = (IF appends = 0 THEN <<>> ELSE FourNames)

\* the four definitions follow one the build tool had registered
C10_Witness ==
    /\ pc = "done"
    /\ cppdefines0 # <<>>
    /\ Len(env.CPPDEFINES) = Len(cppdefines0) + 4
    /\ InjectedNames = FourNames

=============================================================================
